---- MODULE Spec2Model ----
(***************************************************************************)
(* Model of speedclone.py: the archive extractors (_extract_tar_to,        *)
(* _extract_zip_to, _is_within), the six-tier snapshot cascade             *)
(* (_download_snapshot), the reference resolver (bootstrap,                *)
(* _guess_default_sha_html), the git skeleton writer and main.             *)
(*                                                                         *)
(* Strings that are paths are modelled as the sequence of their segments,  *)
(* i.e. the result of str.split("/"): "p/a" is <<"p","a">>, "p/" is        *)
(* <<"p","">>, "/x" is <<"","x">> and the empty string is <<"">>.          *)
(* A filesystem path is the sequence of its components from the root "/".  *)
(* The model filesystem has no symbolic links (the program never creates   *)
(* one), so Path.resolve is the lexical normalisation os.path.realpath     *)
(* performs.  Permission bits (os.chmod) are not part of the modelled      *)
(* state.                                                                  *)
(*                                                                         *)
(* Four specifications share the variables: Spec is a whole run of main,   *)
(* SpecExtract one extraction of any archive, SpecLocate one call of       *)
(* _owner_repo on any URL, SpecHtml one call of _guess_default_sha_html    *)
(* with and without a branch hint.                                         *)
(***************************************************************************)
EXTENDS Integers, Sequences, FiniteSets, TLC

\* ---------------------------------------------------------------- bounds
MaxEntries == 3

\* ------------------------------------------------------- the destination
\* dst as an absolute path: the working directory /w and the target "dst".
Cwd == <<"w">>
Dst == <<"w", "dst">>

\* ----------------------------------------------------------- path helpers
Last(s) == s[Len(s)]

\* PurePath.parent: lexical, the root is its own parent.
Parent(p) == IF p = <<>> THEN <<>> ELSE SubSeq(p, 1, Len(p) - 1)

\* str.rstrip('/') on a segment sequence: drop trailing empty segments,
\* the empty string <<"">> remains.
RECURSIVE RStripSlash(_)
RStripSlash(n) ==
    IF Len(n) > 1 /\ Last(n) = "" THEN RStripSlash(SubSeq(n, 1, Len(n) - 1))
    ELSE n

\* name.startswith(pre + "/") where pre is a segment sequence.
StartsWithDir(n, pre) == Len(n) > Len(pre) /\ SubSeq(n, 1, Len(pre)) = pre

\* name[len(pre + "/"):]
StripDir(n, pre) == SubSeq(n, Len(pre) + 1, Len(n))

\* the empty string
EmptyStr == <<"">>

\* a string that starts with "/"
IsAbsName(n) == Len(n) >= 2 /\ n[1] = ""

\* pathlib's parsing of a string: empty and "." segments vanish.
PathParts(n) == SelectSeq(n, LAMBDA s : s # "" /\ s # ".")

\* dst / rel : an absolute rel replaces dst.
JoinPath(base, rel) ==
    IF IsAbsName(rel) THEN PathParts(rel) ELSE base \o PathParts(rel)

\* Path.resolve(strict=False) without symlinks: ".." pops lexically.
RECURSIVE Norm(_, _)
Norm(acc, rest) ==
    IF rest = <<>> THEN acc
    ELSE IF Head(rest) = ".." THEN Norm(Parent(acc), Tail(rest))
    ELSE Norm(Append(acc, Head(rest)), Tail(rest))

Resolve(p) == Norm(<<>>, p)

IsPrefixOf(b, t) == Len(t) >= Len(b) /\ SubSeq(t, 1, Len(b)) = b
\* str(target).startswith(str(base) + os.sep) after resolving both.
IsWithin(base, target) ==
    LET b == Resolve(base)
        t == Resolve(target)
    IN  b # <<>> /\ Len(t) > Len(b) /\ IsPrefixOf(b, t)

\* strictly inside the destination, as a resolved filesystem path
Inside(p) == Len(p) > Len(Dst) /\ IsPrefixOf(Dst, p)

\* ------------------------------------------------- kernel path resolution
\* Walk the components of rest as directories, starting in directory cur.
RECURSIVE KWalk(_, _, _, _)
KWalk(d, f, cur, rest) ==
    IF rest = <<>> THEN [err |-> "none", at |-> cur]
    ELSE LET s   == Head(rest)
             nxt == IF s = ".." THEN Parent(cur) ELSE Append(cur, s)
         IN  IF nxt \in d THEN KWalk(d, f, nxt, Tail(rest))
             ELSE IF nxt \in DOMAIN f THEN [err |-> "ENOTDIR", at |-> nxt]
             ELSE [err |-> "ENOENT", at |-> nxt]

\* os.mkdir(p)
OsMkdir(d, f, p) ==
    IF p = <<>> THEN [err |-> "EEXIST", at |-> p]
    ELSE LET w == KWalk(d, f, <<>>, Parent(p)) IN
         IF w.err # "none" THEN w
         ELSE IF Last(p) = ".." THEN [err |-> "EEXIST", at |-> Parent(w.at)]
         ELSE LET tgt == Append(w.at, Last(p)) IN
              IF tgt \in d \/ tgt \in DOMAIN f
              THEN [err |-> "EEXIST", at |-> tgt]
              ELSE [err |-> "none", at |-> tgt]

\* Path.is_dir()
IsDir(d, f, p) == KWalk(d, f, <<>>, p).err = "none"

\* Path.mkdir(parents=True, exist_ok=True): the directories after the call
\* (those made before a failure stay) and whether it returned normally.
\* (An intermediate result is bound as the element of a singleton set, so
\* that it is computed once.)
MkdirRetry(r2, f, p) ==
    IF ~r2.ok THEN r2
    ELSE LET r3 == OsMkdir(r2.dirs, f, p) IN
         IF r3.err = "none"
         THEN [ok |-> TRUE, dirs |-> r2.dirs \cup {r3.at}]
         ELSE IF r3.err = "ENOENT"
         THEN [ok |-> FALSE, dirs |-> r2.dirs]
         ELSE [ok |-> IsDir(r2.dirs, f, p), dirs |-> r2.dirs]

RECURSIVE MkdirParents(_, _, _)
MkdirParents(d, f, p) ==
    LET r == OsMkdir(d, f, p) IN
    IF r.err = "none" THEN [ok |-> TRUE, dirs |-> d \cup {r.at}]
    ELSE IF r.err = "ENOENT"
    THEN IF Parent(p) = p THEN [ok |-> FALSE, dirs |-> d]
         ELSE CHOOSE res \in {MkdirRetry(r2, f, p) : r2 \in {MkdirParents(d, f, Parent(p))}} : TRUE
    ELSE [ok |-> IsDir(d, f, p), dirs |-> d]

\* open(p, "wb"): the file created or truncated, or the error.
OpenWb(d, f, p) ==
    IF p = <<>> THEN [err |-> "EISDIR", at |-> p]
    ELSE LET w == KWalk(d, f, <<>>, Parent(p)) IN
         IF w.err # "none" THEN w
         ELSE IF Last(p) = ".." THEN [err |-> "EISDIR", at |-> Parent(w.at)]
         ELSE LET tgt == Append(w.at, Last(p)) IN
              IF tgt \in d THEN [err |-> "EISDIR", at |-> tgt]
              ELSE [err |-> "none", at |-> tgt]

\* ------------------------------------------------------ extraction state
\* dirs, files: the filesystem; made: every path an extraction created or
\* wrote; log: one record per entry that produced output; err: the
\* exception that ended the extraction, "none" if it returned.
ExState(d, f) == [dirs |-> d, files |-> f, made |-> {}, log |-> <<>>, err |-> "none"]

\* out.mkdir(parents=True, exist_ok=True) for entry i
MkdirDone(st, r, out, i) ==
    [st EXCEPT !.dirs = r.dirs,
               !.made = @ \cup (r.dirs \ st.dirs),
               !.log  = IF r.ok THEN Append(@, [idx |-> i, op |-> "mkdir", out |-> out,
                                                at |-> KWalk(r.dirs, st.files, <<>>, out).at])
                        ELSE @,
               !.err  = IF r.ok THEN "none" ELSE "OSError"]

DoMkdir(st, out, i) ==
    CHOOSE res \in {MkdirDone(st, r, out, i) : r \in {MkdirParents(st.dirs, st.files, out)}} : TRUE

WriteDoneMut(st, r, out, data, i, readFails) ==
    IF ~r.ok
    THEN [st EXCEPT !.dirs = r.dirs, !.made = @ \cup (r.dirs \ st.dirs),
                    !.err = "OSError"]
    ELSE LET o == OpenWb(r.dirs, st.files, out) IN
         IF o.err # "none"
         THEN [st EXCEPT !.dirs = r.dirs, !.made = @ \cup (r.dirs \ st.dirs),
                         !.err = "OSError"]
         ELSE [st EXCEPT !.dirs  = r.dirs,
                         !.files = IF readFails
                                   THEN [q \in DOMAIN @ \ {o.at} |-> @[q]]
                                   ELSE (o.at :> data) @@ @,
                         !.made  = @ \cup (r.dirs \ st.dirs) \cup {o.at},
                         !.log   = Append(@, [idx |-> i, op |-> "write", out |-> out,
                                              at |-> o.at]),
                         !.err   = IF readFails THEN "StreamError" ELSE "none"]
\* out.parent.mkdir(parents=True, exist_ok=True); open(out, "wb");
\* f.write(src.read()).  readFails: src.read() raises after the file was
\* opened (and so created or truncated).
WriteDone(st, r, out, data, i, readFails) ==
    IF ~r.ok
    THEN [st EXCEPT !.dirs = r.dirs, !.made = @ \cup (r.dirs \ st.dirs),
                    !.err = "OSError"]
    ELSE LET o == OpenWb(r.dirs, st.files, out) IN
         IF o.err # "none"
         THEN [st EXCEPT !.dirs = r.dirs, !.made = @ \cup (r.dirs \ st.dirs),
                         !.err = "OSError"]
         ELSE [st EXCEPT !.dirs  = r.dirs,
                         !.files = (o.at :> (IF readFails THEN "" ELSE data)) @@ @,
                         !.made  = @ \cup (r.dirs \ st.dirs) \cup {o.at},
                         !.log   = Append(@, [idx |-> i, op |-> "write", out |-> out,
                                              at |-> o.at]),
                         !.err   = IF readFails THEN "StreamError" ELSE "none"]

DoWriteFile(st, out, data, i, readFails) ==
    CHOOSE res \in {WriteDone(st, r, out, data, i, readFails) :
                       r \in {MkdirParents(st.dirs, st.files, Parent(out))}} : TRUE

\* ------------------------------------------------------------ tar extractor
\* A tar member: name (TarInfo.name, directories without trailing slash),
\* kind in {"dir","file","sym","lnk","fifo"}, data (file content).
FirstDirMut(entries) ==
    IF entries = <<>> THEN 0 ELSE 1
\* the index of the first member with isdir(), 0 if there is none
FirstDir(entries) ==
    IF \E i \in 1..Len(entries) : entries[i].kind = "dir"
    THEN CHOOSE i \in 1..Len(entries) :
            /\ entries[i].kind = "dir"
            /\ \A j \in 1..(i - 1) : entries[j].kind # "dir"
    ELSE 0

\* prefix = m.name.rstrip('/') + '/', kept as the segments before the "/"
TarPrefix(entries) == RStripSlash(entries[FirstDir(entries)].name)

\* m.issym() or m.islnk()
TarLinkSkip(m) == m.kind \in {"sym", "lnk"}

\* one iteration of the second loop of _extract_tar_to
TarEntry(st, m, i, pre, streamed) ==
    IF ~StartsWithDir(m.name, pre) THEN st
    ELSE LET rel == StripDir(m.name, pre) IN
         IF rel = EmptyStr THEN st
         ELSE LET out == JoinPath(Dst, rel) IN
              IF ~IsWithin(Dst, out) THEN st
              ELSE IF TarLinkSkip(m) THEN st
              ELSE IF m.kind = "dir" THEN DoMkdir(st, out, i)
              ELSE IF m.kind = "file"
                   THEN DoWriteFile(st, out, m.data, i, streamed /\ m.data # "")
              ELSE st

RECURSIVE TarLoop(_, _, _, _, _)
TarLoop(st, entries, i, pre, streamed) ==
    CHOOSE res \in
        { IF i > Len(entries) \/ v.err # "none" THEN v
          ELSE TarLoop(TarEntry(v, entries[i], i, pre, streamed), entries, i + 1, pre, streamed)
          : v \in {st} } : TRUE

\* _extract_tar_to(tf, dst); streamed: tf was opened in mode "r|gz", where
\* reading a member's data after getmembers() has consumed the stream needs
\* a backward seek and raises StreamError (an empty member reads nothing).
ExtractTar(entries, d, f, streamed) ==
    IF FirstDir(entries) = 0
    THEN [ExState(d, f) EXCEPT !.err = "Malformed"]
    ELSE TarLoop(ExState(d, f), entries, 1, TarPrefix(entries), streamed)

\* ------------------------------------------------------------ zip extractor
\* A zip entry: name (a directory entry ends with "/"), kind in
\* {"dir","file","sym"} (sym: the Unix mode in external_attr is S_IFLNK, the
\* data is the link target), data.
\* Python's order of the strings s + "/" for the first segments in use.
StrOrder == <<"..", "", "a", "a\\b", "b", "dst", "o", "p", "q", "r", "w">>
StrRank(s) == CHOOSE k \in 1..Len(StrOrder) : StrOrder[k] = s

\* '/' in name
HasSlash(n) == Len(n) >= 2

\* {name.split('/',1)[0] + '/' ...}, kept as the segment before the "/"
ZipRoots(entries) == {entries[i].name[1] : i \in {j \in 1..Len(entries) : HasSlash(entries[j].name)}}

\* roots[0] if roots else '' ; <<>> stands for the empty prefix
ZipPrefix(entries) ==
    LET roots == ZipRoots(entries) IN
    IF roots = {} THEN <<>>
    ELSE <<CHOOSE r \in roots : \A q \in roots : StrRank(r) <= StrRank(q)>>

\* zf.open(name) reads the last entry of that name (ZipFile.NameToInfo)
ZipData(entries, n) ==
    entries[CHOOSE i \in 1..Len(entries) :
                /\ entries[i].name = n
                /\ \A j \in (i + 1)..Len(entries) : entries[j].name # n].data

\* name.endswith('/')
EndsWithSlash(n) == Len(n) >= 2 /\ Last(n) = ""

\* one iteration of the loop of _extract_zip_to
ZipEntry(st, entries, i, pre) ==
    LET n == entries[i].name IN
    IF pre # <<>> /\ ~StartsWithDir(n, pre) THEN st
    ELSE LET rel == StripDir(n, pre) IN
         IF rel = EmptyStr THEN st
         ELSE LET out == Resolve(JoinPath(Dst, rel)) IN
              IF ~IsWithin(Dst, out) THEN st
              ELSE IF EndsWithSlash(n) THEN DoMkdir(st, out, i)
              ELSE DoWriteFile(st, out, ZipData(entries, n), i, FALSE)

RECURSIVE ZipLoop(_, _, _, _)
ZipLoop(st, entries, i, pre) ==
    CHOOSE res \in
        { IF i > Len(entries) \/ v.err # "none" THEN v
          ELSE ZipLoop(ZipEntry(v, entries, i, pre), entries, i + 1, pre)
          : v \in {st} } : TRUE

\* _extract_zip_to(zf, dst)
ExtractZip(entries, d, f) == ZipLoop(ExState(d, f), entries, 1, ZipPrefix(entries))

\* ------------------------------------------------------------------ state
VARIABLES
    pc,        \* position of the single thread of control
    dirs,      \* filesystem: the set of directories
    files,     \* filesystem: regular file path -> content
    made,      \* history: every path the run created or wrote
    archive,   \* the archive handed to the extractor: [fmt, streamed, entries]
    exLog,     \* history: the output records of the last extraction
    exErr,     \* how the last extraction ended
    tier,      \* the cascade tier about to be attempted (1..6)
    attempts,  \* history: the tiers attempted, in order
    errs,      \* _download_snapshot's errs list
    requests,  \* history: the HTTP requests made, in order
    branch,    \* default_branch
    sha,       \* head_sha
    api,       \* history: what the API answered (branch and tip commit)
    repoTree,  \* remote: the repository's tree at the resolved commit
    headTree,  \* remote: the tree at the branch head when it is downloaded
    dstWas,    \* input: the destination before the run
    force,     \* input: --force
    url,       \* input: the repository URL
    hint,      \* input: branch_hint of _guess_default_sha_html
    pages,     \* remote: what each HTML page holds where the pattern looks
    repoRef,   \* owner and repo, once located
    exit       \* the process's exit status, "running" until it ends

vars == <<pc, dirs, files, made, archive, exLog, exErr, tier, attempts, errs,
          requests, branch, sha, api, repoTree, headTree, dstWas, force, url, hint, pages,
          repoRef, exit>>

NoArchive == [fmt |-> "none", streamed |-> FALSE, entries |-> <<>>]
None == "None"
\* no branch name: an absent or empty value
NoBranch == <<>>
\* no url argument on the command line
NoUrl == [netloc |-> <<>>, path |-> <<>>]
NoFiles == [x \in {} |-> ""]
NoPages == [k \in {"commits", "tree"} |-> [b \in {} |-> ""]]

\* the filesystem before the run: /, /w and perhaps the destination
BaseDirs == {<<>>, Cwd}

\* ------------------------------------------- the extractor on its own
\* Members a tar archive may hold.
TarNames ==
    { <<"p">>, <<"p", "a">>, <<"p", "a", "b">>, <<"q", "c">>,
      <<"p", "..", "x">>, <<"p", "..", "o", "..", "dst", "b">>,
      <<"p", "", "w", "dst", "c">>, <<"p", "", "o">>, <<"p", "a\\b">>,
      <<"p", "a", "..">> }
TarMembers ==
    { [name |-> n, kind |-> "file", data |-> "x"] : n \in TarNames }
    \cup { [name |-> n, kind |-> "dir", data |-> ""] :
             n \in {<<"p">>, <<"p", "a">>, <<"p", "a", "..">>,
                    <<"p", "..", "o", "..", "dst", "b">>} }
    \cup { [name |-> <<"p", "a">>, kind |-> k, data |-> ""] : k \in {"sym", "lnk", "fifo"} }
    \cup { [name |-> <<"p", "e">>, kind |-> "file", data |-> ""] }

\* Entries a zip archive may hold.
ZipMembers ==
    { [name |-> n, kind |-> "file", data |-> "x"] :
        n \in { <<"p", "a">>, <<"p", "a", "b">>, <<"q", "c">>, <<"r">>,
                <<"p", "..", "x">>, <<"p", "..", "o", "..", "dst", "b">>,
                <<"", "w", "c">>, <<"p", "a\\b">> } }
    \cup { [name |-> n, kind |-> "dir", data |-> ""] :
             n \in {<<"p", "">>, <<"p", "a", "">>, <<"q", "">>} }
    \cup { [name |-> <<"p", "a">>, kind |-> "file", data |-> "y"],
           [name |-> <<"p", "l">>, kind |-> "sym", data |-> "target"] }

SeqsUpTo(S, n) == UNION { [1..k -> S] : k \in 0..n }

\* destinations an extraction may start from: empty, or holding what an
\* earlier tier left behind
StartTrees ==
    { [dirs |-> BaseDirs \cup {Dst}, files |-> NoFiles],
      [dirs |-> BaseDirs \cup {Dst}, files |-> (Dst \o <<"a">>) :> ""],
      [dirs |-> BaseDirs \cup {Dst, Dst \o <<"a">>}, files |-> NoFiles] }

InitExtract ==
    /\ pc = "extract"
    /\ \E fmt \in {"tar", "zip"}, st \in BOOLEAN :
        /\ fmt = "zip" => ~st
        /\ \E es \in SeqsUpTo(IF fmt = "tar" THEN TarMembers ELSE ZipMembers, MaxEntries) :
              archive = [fmt |-> fmt, streamed |-> st, entries |-> es]
    /\ \E t \in StartTrees : dirs = t.dirs /\ files = t.files
    /\ made = {} /\ exLog = <<>> /\ exErr = "none"
    /\ tier = 0 /\ attempts = <<>> /\ errs = <<>> /\ requests = <<>>
    /\ branch = NoBranch /\ sha = None
    /\ api = [meta |-> "none", branch |-> NoBranch, tip |-> "none", sha |-> None]
    /\ repoTree = <<>> /\ headTree = <<>>
    /\ dstWas = "empty" /\ force = FALSE /\ url = NoUrl /\ repoRef = None
    /\ hint = NoBranch /\ pages = NoPages
    /\ exit = "running"

Extract(a, d, f) ==
    IF a.fmt = "tar" THEN ExtractTar(a.entries, d, f, a.streamed)
    ELSE ExtractZip(a.entries, d, f)

\* one call of _extract_tar_to or _extract_zip_to
RunExtract ==
    /\ pc = "extract"
    /\ \E r \in {Extract(archive, dirs, files)} :
        /\ dirs' = r.dirs /\ files' = r.files /\ made' = made \cup r.made
        /\ exLog' = r.log /\ exErr' = r.err
    /\ pc' = "extracted"
    /\ UNCHANGED <<archive, tier, attempts, errs, requests, branch, sha, api,
                   repoTree, headTree, dstWas, force, url, hint, pages, repoRef, exit>>

NextExtract == RunExtract
SpecExtract == InitExtract /\ [][NextExtract]_vars

\* ------------------------------------------------------------ the remote
\* A tree is the list of a commit's paths in archive order.
F(path, data) == [path |-> path, kind |-> "file", data |-> data]
D(path) == [path |-> path, kind |-> "dir", data |-> ""]
TreeLight == << D(<<"d">>), F(<<"e">>, "") >>
TreeFull  == << F(<<"a">>, "1"), D(<<"d">>), F(<<"d", "f">>, "1") >>
TreeMoved == << D(<<"a">>), F(<<"a", "b">>, "2"), F(<<"n">>, "2") >>
RepoTrees == {TreeLight, TreeFull}

\* codeload's tar.gz of a tree: all members under one wrapper directory
TarOf(tree) ==
    <<[name |-> <<"p">>, kind |-> "dir", data |-> ""]>>
    \o [i \in 1..Len(tree) |->
          [name |-> <<"p">> \o tree[i].path, kind |-> tree[i].kind, data |-> tree[i].data]]

\* codeload's zip of a tree: directory entries end with "/"
ZipOf(tree) ==
    <<[name |-> <<"p", "">>, kind |-> "dir", data |-> ""]>>
    \o [i \in 1..Len(tree) |->
          [name |-> <<"p">> \o tree[i].path \o (IF tree[i].kind = "dir" THEN <<"">> ELSE <<>>),
           kind |-> tree[i].kind, data |-> tree[i].data]]

\* ---------------------------------------------------------------- locator
RECURSIVE RepeatSeq(_, _)
RepeatSeq(cs, n) == IF n = 0 THEN <<>> ELSE cs \o RepeatSeq(cs, n - 1)

\* Strings the code inspects are sequences of characters; a URL is the
\* netloc and the path urlparse(url) gives.
\* c40, h40, h7, h6 and z40 name commit ids as the API or a page may hold
\* them: 40 hex digits, 40 hex digits in upper case, 7 and 6 hex digits,
\* and 40 characters that are not all hex digits.
Chars(str) ==
    CASE str = "github.com" -> <<"g", "i", "t", "h", "u", "b", ".", "c", "o", "m">>
      [] str = "GitHub.com" -> <<"G", "i", "t", "H", "u", "b", ".", "c", "o", "m">>
      [] str = "gitlab.com" -> <<"g", "i", "t", "l", "a", "b", ".", "c", "o", "m">>
      [] str = ".git"       -> <<".", "g", "i", "t">>
      [] str = "acme"       -> <<"a", "c", "m", "e">>
      [] str = "widget"     -> <<"w", "i", "d", "g", "e", "t">>
      [] str = "widget.git" -> <<"w", "i", "d", "g", "e", "t", ".", "g", "i", "t">>
      [] str = ""           -> <<>>
      [] str = "/"          -> <<"/">>
      [] str = "www.github.com" ->
            <<"w", "w", "w", ".", "g", "i", "t", "h", "u", "b", ".", "c", "o", "m">>
      [] str = "notgithub.com" ->
            <<"n", "o", "t", "g", "i", "t", "h", "u", "b", ".", "c", "o", "m">>
      [] str = "github.com.evil.org" ->
            <<"g", "i", "t", "h", "u", "b", ".", "c", "o", "m", ".", "e", "v", "i", "l",
              ".", "o", "r", "g">>
      [] str = "c40" -> RepeatSeq(<<"0", "1", "a", "b", "c", "d", "e", "f">>, 5)
      [] str = "h40" -> RepeatSeq(<<"A", "B", "C", "D", "E", "F", "0", "9">>, 5)
      [] str = "h7"  -> <<"d", "e", "a", "d", "b", "e", "e">>
      [] str = "h6"  -> <<"d", "e", "a", "d", "b", "e">>
      [] str = "z40" -> RepeatSeq(<<"0", "1", "a", "b", "c", "d", "e", "g">>, 5)

UpperAlpha == <<"A", "B", "C", "D", "E", "F", "G", "H", "I", "J", "K", "L", "M",
                "N", "O", "P", "Q", "R", "S", "T", "U", "V", "W", "X", "Y", "Z">>
LowerAlpha == <<"a", "b", "c", "d", "e", "f", "g", "h", "i", "j", "k", "l", "m",
                "n", "o", "p", "q", "r", "s", "t", "u", "v", "w", "x", "y", "z">>
\* str.lower()
StrLower(cs) ==
    [i \in 1..Len(cs) |->
        IF \E k \in 1..26 : UpperAlpha[k] = cs[i]
        THEN LowerAlpha[CHOOSE k \in 1..26 : UpperAlpha[k] = cs[i]]
        ELSE cs[i]]
\* sub in cs
Contains(sub, cs) ==
    \E i \in 0..(Len(cs) - Len(sub)) : SubSeq(cs, i + 1, i + Len(sub)) = sub
\* cs.endswith(suf)
EndsWith(cs, suf) ==
    Len(cs) >= Len(suf) /\ SubSeq(cs, Len(cs) - Len(suf) + 1, Len(cs)) = suf

\* cs.split("/")
RECURSIVE SplitSlash(_)
SplitSlash(cs) ==
    IF \A i \in 1..Len(cs) : cs[i] # "/" THEN <<cs>>
    ELSE LET k == CHOOSE i \in 1..Len(cs) :
                     cs[i] = "/" /\ \A j \in 1..(i - 1) : cs[j] # "/"
         IN  <<SubSeq(cs, 1, k - 1)>> \o SplitSlash(SubSeq(cs, k + 1, Len(cs)))
\* the string made of the pieces named by toks, in order
RECURSIVE Concat(_)
Concat(toks) == IF toks = <<>> THEN <<>> ELSE Chars(Head(toks)) \o Concat(Tail(toks))

\* _owner_repo(url): ok is FALSE where it raises SystemExit
OwnerRepo(u) ==
    IF ~Contains(Chars("github.com"), StrLower(u.netloc))
    THEN [ok |-> FALSE, owner |-> <<>>, repo |-> <<>>]
    ELSE LET parts == SelectSeq(SplitSlash(u.path), LAMBDA q : q # <<>>) IN
         IF Len(parts) < 2 THEN [ok |-> FALSE, owner |-> <<>>, repo |-> <<>>]
         ELSE LET r == parts[Len(parts)] IN
              [ok    |-> TRUE,
               owner |-> parts[Len(parts) - 1],
               repo  |-> IF EndsWith(r, Chars(".git"))
                         THEN SubSeq(r, 1, Len(r) - 4) ELSE r]

\* the URLs given on the command line
Urls ==
    { [netloc |-> Chars("GitHub.com"), path |-> Concat(<<"/", "acme", "/", "widget.git">>)],
      [netloc |-> Chars("gitlab.com"), path |-> Concat(<<"/", "acme", "/", "widget">>)],
      [netloc |-> Chars("github.com"), path |-> Concat(<<"/", "acme", "/">>)] }

\* --------------------------------------------------------------- the run
Master == <<"master">>
Main == <<"main">>
\* default branches the API may report (a name may contain "/")
ApiBranches == {<<"rel", "v1">>}
ApiShas == {"c40"}
\* what the commit-history page and the tree page may match
HtmlCommitSha == "h40"
HtmlTreeSha == "h7"
\* what a page may hold where the pattern looks for a commit id; "" is a
\* page that cannot be fetched or holds no such place
PageTexts == {"", HtmlCommitSha, HtmlTreeSha, "h6", "z40"}
Dev == <<"dev">>
HintBranches == {Dev, Main}
GitDir == Dst \o <<".git">>

\* the filesystem a run starts from, by what the destination was
StartDirs(was) ==
    BaseDirs \cup (IF was = "absent" THEN {} ELSE {Dst})
             \cup (IF was = "nonempty" THEN {Dst \o <<"sub">>} ELSE {})
StartFiles(was) ==
    IF was = "nonempty"
    THEN (Dst \o <<"a">>) :> "0" @@ (Dst \o <<"sub", "f">>) :> "0"
    ELSE NoFiles

\* the exit statuses: argparse's usage error, main's sys.exit(1) for an
\* existing destination, the status of an uncaught SystemExit(message),
\* main's sys.exit(2) for an Exception out of bootstrap, and a normal return
UsageStatus == 2
ExistsStatus == 1
SystemExitStatus == 1
FailureStatus == 2
SuccessStatus == 0

Init ==
    /\ pc = "main"
    /\ dstWas \in {"absent", "nonempty"}
    /\ force \in BOOLEAN
    /\ url \in Urls \cup {NoUrl} /\ repoRef = None
    /\ hint = NoBranch /\ pages = NoPages
    /\ dirs = StartDirs(dstWas)
    /\ files = StartFiles(dstWas)
    /\ repoTree \in RepoTrees
    /\ headTree \in {repoTree, TreeMoved}
    /\ made = {} /\ archive = NoArchive /\ exLog = <<>> /\ exErr = "none"
    /\ tier = 0 /\ attempts = <<>> /\ errs = <<>> /\ requests = <<>>
    /\ branch = NoBranch /\ sha = None
    /\ api = [meta |-> "none", branch |-> NoBranch, tip |-> "none", sha |-> None]
    /\ exit = "running"

Exited(code) == pc' = "exited" /\ exit' = code

MainStartMut ==
    /\ pc = "main"
    /\ IF url = NoUrl
       THEN /\ Exited(UsageStatus)
            /\ UNCHANGED <<dirs, files, made>>
       ELSE LET kept  == {q \in dirs : ~Inside(q)}
                keptF == [q \in {x \in DOMAIN files : ~Inside(x)} |-> files[q]]
                r     == MkdirParents(kept, keptF, Dst)
            IN  /\ dirs' = r.dirs /\ files' = keptF
                /\ made' = made \cup (r.dirs \ dirs)
                /\ IF Dst \in dirs /\ ~force
                   THEN Exited(ExistsStatus)
                   ELSE pc' = "locate" /\ exit' = exit
    /\ UNCHANGED <<archive, exLog, exErr, tier, attempts, errs, requests, branch,
                   sha, api, repoTree, headTree, dstWas, force, url, hint, pages, repoRef>>
\* main(): parse_args (a missing argument is a usage error, status 2), the
\* existing-destination check, the --force clearing and
\* dst.mkdir(parents=True, exist_ok=True)
MainStart ==
    /\ pc = "main"
    /\ IF url = NoUrl
       THEN /\ Exited(UsageStatus)
            /\ UNCHANGED <<dirs, files, made>>
       ELSE IF Dst \in dirs /\ ~force
       THEN /\ Exited(ExistsStatus)
            /\ UNCHANGED <<dirs, files, made>>
       ELSE LET kept  == {q \in dirs : ~Inside(q)}
                keptF == [q \in {x \in DOMAIN files : ~Inside(x)} |-> files[q]]
                r     == MkdirParents(kept, keptF, Dst)
            IN  /\ dirs' = r.dirs /\ files' = keptF
                /\ made' = made \cup (r.dirs \ dirs)
                /\ pc' = "locate" /\ exit' = exit
    /\ UNCHANGED <<archive, exLog, exErr, tier, attempts, errs, requests, branch,
                   sha, api, repoTree, headTree, dstWas, force, url, hint, pages, repoRef>>

\* bootstrap(): owner, repo = _owner_repo(repo_url); default_branch =
\* "master"; head_sha = None.  SystemExit(message) is
\* not an Exception: main's handler does not catch it and the interpreter
\* exits with status 1.
Locate ==
    /\ pc = "locate"
    /\ LET r == OwnerRepo(url) IN
       IF r.ok
       THEN /\ repoRef' = [owner |-> r.owner, repo |-> r.repo]
            /\ branch' = Master
            /\ pc' = "api_meta" /\ exit' = exit
       ELSE /\ repoRef' = repoRef /\ branch' = branch
            /\ Exited(SystemExitStatus)
    /\ UNCHANGED <<dirs, files, made, archive, exLog, exErr, tier, attempts, errs,
                   requests, sha, api, repoTree, headTree, dstWas, force, url, hint, pages>>

ApiMetaMut ==
    /\ pc = "api_meta"
    /\ requests' = Append(requests, <<"api", "repos">>)
    /\ \/ /\ api' = [api EXCEPT !.meta = "error"]
          /\ pc' = "html"
       \/ \E b \in ApiBranches \cup {NoBranch} :
          /\ api' = [api EXCEPT !.meta = "ok", !.branch = b]
          /\ pc' = "api_tip"
    /\ branch' = branch
    /\ UNCHANGED <<dirs, files, made, archive, exLog, exErr, tier, attempts, errs,
                   sha, repoTree, headTree, dstWas, force, url, hint, pages, repoRef, exit>>
\* bootstrap(): meta = _json(.../repos/{owner}/{repo});
\* default_branch = meta.get("default_branch") or "master"
ApiMeta ==
    /\ pc = "api_meta"
    /\ requests' = Append(requests, <<"api", "repos">>)
    /\ \/ /\ api' = [api EXCEPT !.meta = "error"]
          /\ branch' = branch
          /\ pc' = "html"
       \/ \E b \in ApiBranches \cup {NoBranch} :
          /\ api' = [api EXCEPT !.meta = "ok", !.branch = b]
          /\ branch' = IF b = NoBranch THEN Master ELSE b
          /\ pc' = "api_tip"
    /\ UNCHANGED <<dirs, files, made, archive, exLog, exErr, tier, attempts, errs,
                   sha, repoTree, headTree, dstWas, force, url, hint, pages, repoRef, exit>>

ApiTipMut ==
    /\ pc = "api_tip"
    /\ requests' = Append(requests, <<"api", "commits", branch>>)
    /\ \/ /\ api' = [api EXCEPT !.tip = "error"]
          /\ sha' = sha
          /\ pc' = "html"
       \/ \E c \in ApiShas :
          /\ api' = [api EXCEPT !.tip = "ok", !.sha = c]
          /\ sha' = c
          /\ pc' = "skeleton"
    /\ tier' = tier
    /\ UNCHANGED <<dirs, files, made, archive, exLog, exErr, attempts, errs,
                   branch, repoTree, headTree, dstWas, force, url, hint, pages, repoRef, exit>>
\* bootstrap(): tip = _json(.../commits/{default_branch}); head_sha = tip["sha"]
ApiTip ==
    /\ pc = "api_tip"
    /\ requests' = Append(requests, <<"api", "commits", branch>>)
    /\ \/ /\ api' = [api EXCEPT !.tip = "error"]
          /\ sha' = sha
          /\ pc' = "html"
       \/ \E c \in ApiShas :
          /\ api' = [api EXCEPT !.tip = "ok", !.sha = c]
          /\ sha' = c
          /\ pc' = "cascade"
    /\ tier' = IF pc' = "cascade" THEN 1 ELSE tier
    /\ UNCHANGED <<dirs, files, made, archive, exLog, exErr, attempts, errs,
                   branch, repoTree, headTree, dstWas, force, url, hint, pages, repoRef, exit>>

HtmlCandidatesMut(h) == (IF h = NoBranch THEN <<>> ELSE <<h>>) \o <<Master, Main>>
\* the candidate branches of _guess_default_sha_html:
\* ([branch_hint] if branch_hint else []) + ["main", "master"]
HtmlCandidates(h) == (IF h = NoBranch THEN <<>> ELSE <<h>>) \o <<Main, Master>>

HexDigits == {"0", "1", "2", "3", "4", "5", "6", "7", "8", "9",
              "a", "b", "c", "d", "e", "f"}
MatchHexMut(cs, lo, hi) ==
    /\ Len(cs) <= hi
    /\ \A i \in 1..Len(cs) : StrLower(<<cs[i]>>)[1] \in HexDigits
\* the group ([0-9a-f]{lo,hi}) under re.I, between the delimiters of the
\* pattern: cs is what the page holds between them
MatchHex(cs, lo, hi) ==
    /\ Len(cs) >= lo /\ Len(cs) <= hi
    /\ \A i \in 1..Len(cs) : StrLower(<<cs[i]>>)[1] \in HexDigits
\* the commit-history pattern wants 40 hex digits, the tree pattern 7 to 40
PageMatch(kind, text) ==
    MatchHex(Chars(text), IF kind = "commits" THEN 40 ELSE 7, 40)

\* _guess_default_sha_html: pg[kind][b] is what that page holds ("" when
\* it cannot be fetched).  The first loop asks every candidate's
\* commit-history page, the second every candidate's tree page; a loop
\* returns the branch and m.group(1) at the first match.
RECURSIVE HtmlScan(_, _, _, _, _)
HtmlScan(kind, cands, i, pg, fetched) ==
    IF i > Len(cands) THEN [found |-> FALSE, fetched |-> fetched]
    ELSE LET f2 == Append(fetched, <<"html", kind, cands[i]>>) IN
         IF PageMatch(kind, pg[kind][cands[i]])
         THEN [found |-> TRUE, fetched |-> f2, branch |-> cands[i],
               sha |-> pg[kind][cands[i]]]
         ELSE HtmlScan(kind, cands, i + 1, pg, f2)

GuessDefaultShaHtmlMut(h, pg) ==
    LET cands == HtmlCandidates(h)
        r1    == HtmlScan("commits", cands, 1, pg, <<>>)
        r2    == HtmlScan("tree", cands, 1, pg, r1.fetched)
    IN  IF r1.found THEN r1
        ELSE IF r2.found THEN r2
        ELSE [found |-> TRUE, fetched |-> r2.fetched, branch |-> Master, sha |-> None]
\* the two loops, then raise RuntimeError
GuessDefaultShaHtml(h, pg) ==
    LET cands == HtmlCandidates(h)
        r1    == HtmlScan("commits", cands, 1, pg, <<>>)
    IN  IF r1.found THEN r1
        ELSE HtmlScan("tree", cands, 1, pg, r1.fetched)

\* bootstrap(): the except branch, b, sha = _guess_default_sha_html(owner, repo)
HtmlFallback ==
    /\ pc = "html"
    /\ \E pg \in [{"commits", "tree"} -> [{Main, Master} -> PageTexts]] :
        LET r == GuessDefaultShaHtml(NoBranch, pg) IN
        /\ requests' = requests \o r.fetched
        /\ IF r.found
           THEN /\ branch' = r.branch /\ sha' = r.sha
                /\ pc' = "cascade" /\ tier' = 1 /\ exit' = exit
           ELSE /\ Exited(FailureStatus)
                /\ UNCHANGED <<branch, sha, tier>>
    /\ UNCHANGED <<dirs, files, made, archive, exLog, exErr, attempts, errs, api,
                   repoTree, headTree, dstWas, force, url, hint, pages, repoRef>>

\* ------------------------------------------------------------ the cascade
\* the six try blocks of _download_snapshot, in program order
Tiers ==
    << [fmt |-> "tar", streamed |-> TRUE,  addr |-> "sha",    label |-> "tar.gz(stream)@sha"],
       [fmt |-> "tar", streamed |-> TRUE,  addr |-> "branch", label |-> "tar.gz(stream)@branch"],
       [fmt |-> "tar", streamed |-> FALSE, addr |-> "sha",    label |-> "tar.gz@sha"],
       [fmt |-> "tar", streamed |-> FALSE, addr |-> "branch", label |-> "tar.gz@branch"],
       [fmt |-> "zip", streamed |-> FALSE, addr |-> "sha",    label |-> "zip@sha"],
       [fmt |-> "zip", streamed |-> FALSE, addr |-> "branch", label |-> "zip@branch"] >>
NumTiers == Len(Tiers)

\* what the transfer of a tier can come to before the extractor runs:
\* the request raises, the body is empty (fetch_bytes raises; a streamed
\* tier meets it as an archive it cannot open), the archive cannot be
\* opened, or an archive is handed to the extractor: the tree's archive,
\* or a tar archive that holds no directory member
TransferOutcomes(t) ==
    {"HTTPError", "BadArchive", "archive"}
    \cup (IF t.streamed THEN {} ELSE {"EmptyBody"})
    \cup (IF t.fmt = "tar" THEN {"nodir"} ELSE {})

\* the archive codeload serves for a tier
Served(t, rt, ht) ==
    LET tree == IF t.addr = "sha" THEN rt ELSE ht IN
    [fmt |-> t.fmt, streamed |-> t.streamed,
     entries |-> IF t.fmt = "tar" THEN TarOf(tree) ELSE ZipOf(tree)]

\* a tar archive of the tree without its directory members
ServedNoDir(t, rt, ht) ==
    [Served(t, rt, ht) EXCEPT !.entries = SelectSeq(@, LAMBDA m : m.kind # "dir")]

CaughtMut(e) == e \in {"HTTPError", "OSError"}
\* "except Exception": URLError and HTTPError, fetch_bytes' RuntimeError,
\* tarfile.ReadError and zipfile.BadZipFile, the extractor's RuntimeError,
\* OSError and tarfile.StreamError are all Exceptions
Caught(e) ==
    e \in {"HTTPError", "EmptyBody", "BadArchive", "Malformed", "OSError", "StreamError"}

RecordFailureMut(es, t, e) == <<[label |-> t.label, detail |-> e]>>
\* the except clause of a try block: errs.append(f"{label}: {e}")
RecordFailure(es, t, e) == Append(es, [label |-> t.label, detail |-> e])

NextTierMut(k) == IF k < NumTiers - 1 THEN k + 2 ELSE NumTiers + 1
\* the try block entered after block k raised
NextTier(k) == k + 1

\* one try block of _download_snapshot: the download, the extraction, and
\* either the return or the except clause; after the sixth block the final
\* raise, which main's handler turns into exit status 2, as it does an
\* exception the except clause does not catch
Attempt(k) ==
    /\ pc = "cascade" /\ tier = k
    /\ LET t == Tiers[k] IN
       \E o \in TransferOutcomes(t) :
        /\ attempts' = Append(attempts, k)
        /\ requests' = Append(requests,
              <<"codeload", IF t.fmt = "tar" THEN "tar.gz" ELSE "zip",
                IF t.addr = "sha" THEN sha ELSE branch>>)
        /\ \E a \in {IF o = "archive" THEN Served(t, repoTree, headTree)
                      ELSE IF o = "nodir" THEN ServedNoDir(t, repoTree, headTree)
                      ELSE archive} :
           \E r \in {IF o \in {"archive", "nodir"} THEN Extract(a, dirs, files)
                      ELSE [ExState(dirs, files) EXCEPT !.err = o]} :
               /\ archive' = a
               /\ dirs' = r.dirs /\ files' = r.files /\ made' = made \cup r.made
               /\ exLog' = IF o \in {"archive", "nodir"} THEN r.log ELSE exLog
               /\ exErr' = IF o \in {"archive", "nodir"} THEN r.err ELSE exErr
               /\ IF r.err = "none"
                  THEN /\ pc' = "skeleton" /\ exit' = exit
                       /\ UNCHANGED <<errs, tier>>
                  ELSE IF Caught(r.err)
                  THEN /\ errs' = RecordFailure(errs, t, r.err)
                       /\ tier' = NextTier(k)
                       /\ IF NextTier(k) > NumTiers THEN Exited(FailureStatus)
                          ELSE pc' = pc /\ exit' = exit
                  ELSE /\ Exited(FailureStatus)
                       /\ UNCHANGED <<errs, tier>>
    /\ UNCHANGED <<branch, sha, api, repoTree, headTree, dstWas, force, url, hint, pages, repoRef>>

\* ----------------------------------------------------------- the skeleton
\* the mkdir and write_text calls of _write_git_skeleton, in program order
SkeletonOps(b, c, u) ==
    << [op |-> "mkdir", path |-> GitDir \o <<"refs", "heads">>],
       [op |-> "mkdir", path |-> GitDir \o <<"refs", "remotes", "origin">>],
       [op |-> "mkdir", path |-> GitDir \o <<"refs", "remotes", "upstream">>],
       [op |-> "mkdir", path |-> GitDir \o <<"objects", "info">>],
       [op |-> "write", path |-> GitDir \o <<"HEAD">>,
        text |-> <<"ref: refs/heads/", b, "\n">>],
       [op |-> "write", path |-> JoinPath(GitDir \o <<"refs", "heads">>, b),
        text |-> <<c, "\n">>],
       [op |-> "write", path |-> JoinPath(GitDir \o <<"refs", "remotes", "origin">>, b),
        text |-> <<c, "\n">>],
       [op |-> "write", path |-> JoinPath(GitDir \o <<"refs", "remotes", "upstream">>, b),
        text |-> <<c, "\n">>],
       [op |-> "write", path |-> GitDir \o <<"config">>,
        text |-> <<"config", u, b>>],
       [op |-> "write", path |-> GitDir \o <<"objects", "info", "promisor">>,
        text |-> <<"promisor\n">>] >>

\* Path.write_text: open(path, "w") and write, no parent is created
WriteText(st, path, text) ==
    LET o == OpenWb(st.dirs, st.files, path) IN
    IF o.err # "none" THEN [st EXCEPT !.err = "OSError"]
    ELSE [st EXCEPT !.files = (o.at :> text) @@ @, !.made = @ \cup {o.at}]

RECURSIVE RunSkeleton(_, _, _)
RunSkeleton(st, ops, i) ==
    CHOOSE res \in
        { IF i > Len(ops) \/ v.err # "none" THEN v
          ELSE RunSkeleton(IF ops[i].op = "mkdir" THEN DoMkdir(v, ops[i].path, 0)
                           ELSE WriteText(v, ops[i].path, ops[i].text),
                           ops, i + 1)
          : v \in {st} } : TRUE

\* bootstrap(): _write_git_skeleton(dst, repo_url, default_branch, head_sha);
\* an OSError reaches main's handler (exit status 2), else main returns
WriteGitSkeleton ==
    /\ pc = "skeleton"
    /\ \E r \in {RunSkeleton(ExState(dirs, files), SkeletonOps(branch, sha, url), 1)} :
        /\ dirs' = r.dirs /\ files' = r.files /\ made' = made \cup r.made
        /\ IF r.err = "none" THEN pc' = "done" /\ exit' = SuccessStatus
           ELSE Exited(FailureStatus)
    /\ UNCHANGED <<archive, exLog, exErr, tier, attempts, errs, requests, branch,
                   sha, api, repoTree, headTree, dstWas, force, url, hint, pages, repoRef>>

Next ==
    \/ MainStart
    \/ Locate
    \/ ApiMeta
    \/ ApiTip
    \/ HtmlFallback
    \/ \E k \in 1..NumTiers : Attempt(k)
    \/ WriteGitSkeleton

Spec == Init /\ [][Next]_vars

\* ------------------------------------------------- the locator on its own
\* one call of _owner_repo on any of these URLs; the path urlparse gives
\* is empty or starts with "/"
MaxTokens == 5
LocHosts == {"github.com", "GitHub.com", "www.github.com", "gitlab.com",
             "notgithub.com", "github.com.evil.org", ""}
LocTokens == {"/", "acme", "widget", ".git"}
LocUrls ==
    { [netloc |-> Chars(h), path |-> Concat(toks)] :
        h \in LocHosts,
        toks \in {t \in SeqsUpTo(LocTokens, MaxTokens) : t = <<>> \/ t[1] = "/"} }

InitLocate ==
    /\ pc = "locate"
    /\ url \in LocUrls /\ repoRef = None
    /\ hint = NoBranch /\ pages = NoPages
    /\ dirs = BaseDirs \cup {Dst} /\ files = NoFiles
    /\ made = {Dst} /\ archive = NoArchive /\ exLog = <<>> /\ exErr = "none"
    /\ tier = 0 /\ attempts = <<>> /\ errs = <<>> /\ requests = <<>>
    /\ branch = NoBranch /\ sha = None
    /\ api = [meta |-> "none", branch |-> NoBranch, tip |-> "none", sha |-> None]
    /\ repoTree = <<>> /\ headTree = <<>>
    /\ dstWas = "absent" /\ force = FALSE
    /\ exit = "running"

NextLocate == Locate
SpecLocate == InitLocate /\ [][NextLocate]_vars

\* ------------------------------------------- the HTML resolver on its own
\* one call of _guess_default_sha_html(owner, repo, branch_hint) against
\* any pages, with and without a hint
InitHtml ==
    /\ pc = "guess"
    /\ hint \in {NoBranch} \cup HintBranches
    /\ pages \in [{"commits", "tree"} -> [HintBranches \cup {Main, Master} -> PageTexts]]
    /\ dirs = BaseDirs /\ files = NoFiles
    /\ made = {} /\ archive = NoArchive /\ exLog = <<>> /\ exErr = "none"
    /\ tier = 0 /\ attempts = <<>> /\ errs = <<>> /\ requests = <<>>
    /\ branch = NoBranch /\ sha = None
    /\ api = [meta |-> "none", branch |-> NoBranch, tip |-> "none", sha |-> None]
    /\ repoTree = <<>> /\ headTree = <<>>
    /\ dstWas = "absent" /\ force = FALSE /\ url = NoUrl /\ repoRef = None
    /\ exit = "running"

RunGuess ==
    /\ pc = "guess"
    /\ \E r \in {GuessDefaultShaHtml(hint, pages)} :
        /\ requests' = r.fetched
        /\ IF r.found
           THEN branch' = r.branch /\ sha' = r.sha /\ pc' = "guessed"
           ELSE pc' = "raised" /\ UNCHANGED <<branch, sha>>
    /\ UNCHANGED <<dirs, files, made, archive, exLog, exErr, tier, attempts, errs,
                   api, repoTree, headTree, dstWas, force, url, hint, pages,
                   repoRef, exit>>

NextHtml == RunGuess
SpecHtml == InitHtml /\ [][NextHtml]_vars

\* ==================================================================
\* Properties of the extractors (checked under SpecExtract)
\* ==================================================================
Entries == archive.entries
LogIdx == 1..Len(exLog)
IsLinkKind(k) == k \in {"sym", "lnk"}

\* C3: every path the extractor creates or writes, directory or file, lies
\* strictly inside the destination root, whatever the archive holds.
\* The tar extractor breaks it: for a member such as p/../o/../dst/b the
\* check resolves dst/../o/../dst/b to dst/b, but mkdir(parents=True) of the
\* unresolved parent creates the sibling directory o next to dst.
C3_WritesStayInside == \A q \in made : Inside(q)

\* C4: no output of an extraction, in either format, originates from a
\* symbolic-link or hard-link entry.  The zip extractor breaks it: it never
\* looks at the entry type and writes a symlink entry as a regular file
\* holding the link target.
C4_NoOutputFromLinks ==
    \A k \in LogIdx : ~IsLinkKind(Entries[exLog[k].idx].kind)

\* all members of a tar archive lie under the one top-level directory p
UnderTop(es, top) ==
    /\ es # <<>>
    /\ \A i \in 1..Len(es) :
          /\ es[i].name[1] = top
          /\ Len(es[i].name) = 1 => es[i].kind = "dir"
    /\ \E i \in 1..Len(es) : es[i].name = <<top>>

\* C5: for a tar archive whose entries all share the top-level directory
\* p/, every regular-file or directory entry that is not a link and whose
\* output lies in the root is written at dst joined with its name with p/
\* removed, every output is such a path, and p/ itself produces no output.
\* The code takes the first directory member it meets as the prefix, so an
\* archive listing p/s before p loses p/g and writes p/s/f to dst/f.
C5_TarStripsSharedTop ==
    (pc = "extracted" /\ archive.fmt = "tar" /\ exErr = "none" /\ UnderTop(Entries, "p"))
    => /\ \A i \in 1..Len(Entries) :
            LET m   == Entries[i]
                out == JoinPath(Dst, StripDir(m.name, <<"p">>))
            IN  IF m.name = <<"p">>
                THEN \A k \in LogIdx : exLog[k].idx # i
                ELSE (m.kind \in {"file", "dir"} /\ IsWithin(Dst, out))
                     => \E k \in LogIdx : exLog[k].idx = i /\ exLog[k].out = out
       /\ \A k \in LogIdx :
            exLog[k].out = JoinPath(Dst, StripDir(Entries[exLog[k].idx].name, <<"p">>))

NoDirMember(es) == \A i \in 1..Len(es) : es[i].kind # "dir"

\* C6: a tar archive with no directory entry is rejected as malformed, and
\* the rejection leaves the destination as it was: nothing of the archive
\* is created or written.
C6_TarWithoutDirRejected ==
    [][(pc = "extract" /\ pc' = "extracted" /\ archive.fmt = "tar" /\ NoDirMember(Entries))
       => (exErr' = "Malformed" /\ dirs' = dirs /\ files' = files
           /\ made' = made /\ exLog' = <<>>)]_vars

C6_Witness ==
    /\ pc = "extracted" /\ archive.fmt = "tar" /\ exErr = "Malformed"
    /\ \E i \in 1..Len(Entries) :
          Entries[i].kind = "file" /\ IsWithin(Dst, JoinPath(Dst, Entries[i].name))
    /\ made = {} /\ files # NoFiles

\* a zip archive has no common top-level segment: its entries start with
\* different segments, or one of them is a file at the root
NoCommonTop(es) ==
    /\ es # <<>>
    /\ \/ Cardinality({es[i].name[1] : i \in 1..Len(es)}) > 1
       \/ \E i \in 1..Len(es) : Len(es[i].name) = 1

\* C7: a zip archive without a common top-level segment is extracted with
\* every entry's path unchanged: each entry whose own path lies in the root
\* is written at dst joined with its full name.  The code strips the
\* lexicographically first top-level segment whenever any name contains a
\* "/", and drops every entry that does not start with it.
C7_ZipNoCommonTopUnchanged ==
    (pc = "extracted" /\ archive.fmt = "zip" /\ exErr = "none" /\ NoCommonTop(Entries))
    => \A i \in 1..Len(Entries) :
          LET out == Resolve(JoinPath(Dst, Entries[i].name)) IN
          IsWithin(Dst, out)
          => \E k \in LogIdx : exLog[k].idx = i /\ exLog[k].at = out

\* ==================================================================
\* Properties of a run (checked under Spec)
\* ==================================================================
\* the cascade returned: a tier completed without error
Succeeded == pc \in {"skeleton", "done", "exited"} /\ tier \in 1..NumTiers
\* the cascade raised after its last tier
Exhausted == tier > NumTiers
Upto(n) == [i \in 1..n |-> i]
CodeloadRequests == SelectSeq(requests, LAMBDA q : q[1] = "codeload")
HtmlRequests == SelectSeq(requests, LAMBDA q : q[1] = "html")
\* the six tiers as the specification lists them
SpecTierLabels ==
    << "tar.gz(stream)@sha", "tar.gz(stream)@branch", "tar.gz@sha", "tar.gz@branch",
       "zip@sha", "zip@branch" >>
SpecTierRequest(i) ==
    << "codeload", IF i <= 4 THEN "tar.gz" ELSE "zip", IF i % 2 = 1 THEN sha ELSE branch >>

\* C1: the tiers are attempted in the fixed order tar-stream@commit,
\* tar-stream@branch, tar-buffered@commit, tar-buffered@branch, zip@commit,
\* zip@branch, each at most once; when tiers 1..k-1 failed and tier k
\* completed, exactly the k attempts 1..k were made, and no further attempt
\* is ever made afterwards.
C1_OrderedAttempts ==
    /\ [](/\ Len(attempts) <= NumTiers
          /\ attempts = Upto(Len(attempts))
          /\ CodeloadRequests = [i \in 1..Len(attempts) |-> SpecTierRequest(i)]
          /\ \A i \in 1..Len(errs) : errs[i].label = SpecTierLabels[i]
          /\ Succeeded => (attempts = Upto(tier) /\ Len(errs) = tier - 1))
    /\ [][Succeeded => (Succeeded' /\ attempts' = attempts /\ tier' = tier)]_vars

C1_Witness ==
    /\ pc = "done" /\ tier = 5 /\ attempts = <<1, 2, 3, 4, 5>>
    /\ Len(errs) = 4 /\ archive.fmt = "zip"

\* C2: when all six tiers fail the cascade fails (the run ends with the
\* failure status) and the error carries exactly six failure details, one
\* per tier in tier order; a cascade that failed has a recorded reason for
\* every tier.
C2_ExhaustedCarriesSixDetails ==
    /\ Exhausted =>
          /\ pc = "exited" /\ exit = 2
          /\ attempts = Upto(NumTiers)
          /\ Len(errs) = 6
          /\ \A i \in 1..6 : errs[i].label = SpecTierLabels[i] /\ errs[i].detail # "none"
    /\ (pc = "exited" /\ attempts # <<>> /\ ~Succeeded) => Exhausted
    /\ (Len(attempts) = NumTiers /\ pc = "exited" /\ ~Succeeded) => Len(errs) = 6

C2_Witness ==
    /\ Exhausted /\ pc = "exited" /\ Len(errs) = 6
    /\ errs[1].detail = "StreamError" /\ errs[3].detail = "EmptyBody"
    /\ errs[6].detail = "OSError"

\* the destination's tree outside .git
UnderGit(q) == IsPrefixOf(GitDir, q)
WorkDirs == {q \in dirs : Inside(q) /\ ~UnderGit(q)}
WorkFiles == [q \in {x \in DOMAIN files : Inside(x) /\ ~UnderGit(x)} |-> files[q]]
\* a tree laid out under the destination
TreeDirs(tree) == {Dst \o tree[i].path : i \in {j \in 1..Len(tree) : tree[j].kind = "dir"}}
TreeFileIdx(tree) == {j \in 1..Len(tree) : tree[j].kind = "file"}
TreeFiles(tree) ==
    [q \in {Dst \o tree[i].path : i \in TreeFileIdx(tree)} |->
        tree[CHOOSE i \in TreeFileIdx(tree) : Dst \o tree[i].path = q].data]

\* C8: after a run that ends successfully the destination's tree outside
\* .git is the repository's tree at the resolved commit, whichever tier
\* succeeded and whatever earlier tiers wrote.  The code breaks it: a
\* branch-addressed tier downloads the branch head of that moment, and
\* what a failed tier wrote stays in the destination.
C8_TreeMatchesResolvedCommit ==
    pc = "done" => (WorkDirs = TreeDirs(repoTree) /\ WorkFiles = TreeFiles(repoTree))

\* C9 as stated: when both API requests succeed the resolved branch and
\* commit are exactly the API's default branch and tip commit and no HTML
\* page is fetched; an HTML page is fetched only after an API error.
C9_Original ==
    /\ api.tip = "ok" => (branch = api.branch /\ sha = api.sha /\ HtmlRequests = <<>>)
    /\ HtmlRequests # <<>> => (api.meta = "error" \/ api.tip = "error")

\* C9 (amended): an HTML page is fetched only after an API request raised;
\* when both API requests succeed no HTML page is fetched, the commit is
\* the API's tip commit, and the branch is the API's default branch, or
\* "master" when the metadata carries no (or an empty) default branch.
C9_ApiResultUsed ==
    /\ api.tip = "ok" =>
          /\ branch = (IF api.branch = NoBranch THEN Master ELSE api.branch)
          /\ sha = api.sha
          /\ HtmlRequests = <<>>
    /\ HtmlRequests # <<>> => (api.meta = "error" \/ api.tip = "error")

C9_Witness ==
    /\ pc = "cascade" /\ api.meta = "ok" /\ api.tip = "ok"
    /\ api.branch = <<"rel", "v1">> /\ branch = api.branch /\ sha = "c40"

\* every candidate's commit-history page and tree page was fetched and
\* none gave a match
HtmlExhausted == Len(HtmlRequests) = 4 /\ sha = None

\* C10: when the API tier fails and no candidate branch gives a match in
\* the HTML tier, the run fails: no acquisition tier is attempted, nothing
\* is written into the destination root and no .git skeleton is written.
C10_ResolutionFailureWritesNothing ==
    HtmlExhausted =>
        /\ pc = "exited" /\ exit = 2
        /\ attempts = <<>> /\ CodeloadRequests = <<>>
        /\ \A q \in made : ~Inside(q)
        /\ \A q \in dirs \cup DOMAIN files : ~Inside(q)

C10_Witness ==
    /\ HtmlExhausted /\ pc = "exited" /\ api.meta = "ok" /\ api.tip = "error"
    /\ dstWas = "nonempty" /\ Dst \in dirs

\* the synthesizer ran: the cascade returned and _write_git_skeleton
\* returned or raised
SkeletonRan == Succeeded /\ pc \in {"done", "exited"}
HeadsRef(b) == JoinPath(GitDir \o <<"refs", "heads">>, b)
OriginRef(b) == JoinPath(GitDir \o <<"refs", "remotes", "origin">>, b)
UpstreamRef(b) == JoinPath(GitDir \o <<"refs", "remotes", "upstream">>, b)
HasText(q, text) == q \in DOMAIN files /\ files[q] = text

\* C11: for every resolved branch b and commit c, after the synthesizer
\* ran, HEAD holds exactly "ref: refs/heads/<b>" and one newline, and
\* refs/heads/<b>, refs/remotes/origin/<b> and refs/remotes/upstream/<b>
\* each hold c and one newline.  The code breaks it for a branch whose name
\* contains "/": write_text creates no parent directory, so after HEAD is
\* written refs/heads/rel/v1 cannot be opened and the run ends with status 2.
C11_SkeletonRefsHoldCommit ==
    SkeletonRan =>
        /\ HasText(GitDir \o <<"HEAD">>, <<"ref: refs/heads/", branch, "\n">>)
        /\ HasText(HeadsRef(branch), <<sha, "\n">>)
        /\ HasText(OriginRef(branch), <<sha, "\n">>)
        /\ HasText(UpstreamRef(branch), <<sha, "\n">>)

\* the run was started on an existing destination without --force
KeptDestination == url # NoUrl /\ dstWas = "nonempty" /\ ~force

\* C12: a run against an existing non-empty destination without the
\* overwrite flag leaves the destination as it was (nothing deleted, no
\* directory created, no request made, nothing extracted) and ends at once
\* with the existing-destination status.
C12_ExistingDestinationUntouched ==
    KeptDestination =>
        /\ dirs = StartDirs("nonempty") /\ files = StartFiles("nonempty")
        /\ made = {} /\ requests = <<>> /\ attempts = <<>> /\ archive = NoArchive
        /\ pc \in {"main", "exited"}
        /\ pc = "exited" => exit = ExistsStatus

C12_Witness ==
    /\ KeptDestination /\ pc = "exited" /\ exit = ExistsStatus
    /\ HasText(Dst \o <<"sub", "f">>, "0")

\* how a run ended: the usage errors (a bad command line, an existing
\* destination without --force) and the three top-level failures
UsageError == pc = "exited" /\ (url = NoUrl \/ (dstWas # "absent" /\ ~force))
InvalidURL == pc = "exited" /\ ~UsageError /\ ~OwnerRepo(url).ok
RefResolutionFailed == pc = "exited" /\ HtmlExhausted
SnapshotUnavailable == pc = "exited" /\ Exhausted
TopLevelFailure == InvalidURL \/ RefResolutionFailed \/ SnapshotUnavailable
\* the statuses a usage error is reported with
UsageStatuses == {UsageStatus, ExistsStatus}

\* C13: every top-level failure (InvalidURL, RefResolutionFailed,
\* SnapshotUnavailable) ends the run with a status that neither a usage
\* error nor a success is reported with.  The code breaks it: _owner_repo
\* raises SystemExit(message), which main's "except Exception" does not
\* catch, so InvalidURL ends with status 1, the status of the existing
\* destination; the other two end with status 2, the status argparse gives
\* a bad command line.
C13_FailureStatusDistinct ==
    TopLevelFailure => exit \notin (UsageStatuses \cup {SuccessStatus})

\* what exists under .git
GitPaths == {q \in dirs \cup DOMAIN files : UnderGit(q)}

\* C15: the synthesizer runs at most once and only after a tier of the
\* cascade succeeded: wherever a path under .git exists (or was written)
\* the cascade has returned successfully; when the cascade failed with all
\* six tiers nothing under .git exists; and what is under .git changes in
\* one step only, from nothing, taken after the cascade returned.
C15_SkeletonOnlyAfterSuccess ==
    /\ []((GitPaths # {} \/ \E q \in made : UnderGit(q)) => SkeletonRan)
    /\ [](Exhausted => (GitPaths = {} /\ \A q \in made : ~UnderGit(q)))
    /\ [][GitPaths' # GitPaths
            => (GitPaths = {} /\ pc = "skeleton" /\ Succeeded /\ pc' \in {"done", "exited"})]_vars

C15_Witness ==
    /\ pc = "done" /\ tier = 3 /\ Len(errs) = 2
    /\ GitDir \o <<"HEAD">> \in DOMAIN files /\ GitDir \o <<"config">> \in made

\* the kinds of failure inside a tier: transport error, empty response,
\* an archive that cannot be opened, a malformed archive, a filesystem
\* error during extraction, a streamed member that cannot be read
TierFailureKinds ==
    {"HTTPError", "EmptyBody", "BadArchive", "Malformed", "OSError", "StreamError"}
\* this step is an attempt of a tier that did not complete
TierFailed == pc = "cascade" /\ attempts' # attempts /\ pc' # "skeleton"

\* C16: a failure of any kind inside tier k fails only that tier: its
\* detail is recorded, and for k < 6 the run does not end but stands at
\* tier k + 1, whose attempt is the next step; in the cascade the run is
\* always at a tier it can attempt.
C16_TierFailureIsLocal ==
    /\ [][TierFailed =>
            /\ Len(errs') = Len(errs) + 1
            /\ errs'[Len(errs')].detail \in TierFailureKinds
            /\ tier < NumTiers =>
                  (pc' = "cascade" /\ tier' = tier + 1 /\ exit' = "running")]_vars
    /\ [](pc = "cascade" =>
            (tier \in 1..NumTiers /\ Len(attempts) = tier - 1 /\ exit = "running"))
    /\ [][pc = "cascade" => (attempts' = Append(attempts, tier))]_vars

C16_Witness ==
    /\ pc = "cascade" /\ tier = 6 /\ Len(errs) = 5
    /\ errs[1].detail = "StreamError" /\ errs[2].detail = "OSError"
    /\ errs[3].detail = "EmptyBody" /\ errs[4].detail = "Malformed"
    /\ errs[5].detail = "HTTPError"

\* the cascade has started
CascadeStarted == tier >= 1
IsHexString(cs) ==
    \A i \in 1..Len(cs) : cs[i] \in HexDigits \cup {"A", "B", "C", "D", "E", "F"}

C20_PathsOnlyGrow ==
    /\ [][CascadeStarted => (dirs \subseteq dirs' /\ DOMAIN files \subseteq DOMAIN files')]_vars
    /\ [](CascadeStarted => \A q \in made : q \in dirs \cup DOMAIN files)

C20_Witness ==
    /\ pc = "done" /\ tier = 3 /\ errs[2].detail = "StreamError"
    /\ repoTree = TreeLight /\ headTree = TreeMoved
    /\ Dst \o <<"a", "b">> \in made /\ HasText(Dst \o <<"a", "b">>, "")
    /\ Dst \o <<"a">> \in dirs

\* ==================================================================
\* Properties of the locator (checked under SpecLocate)
\* ==================================================================
\* the locator returned / raised
Located == pc = "api_meta"
LocatorFailed == pc = "exited" /\ exit = SystemExitStatus
NoSeparator(cs) == \A i \in 1..Len(cs) : cs[i] \notin {"/", "\\"}

\* C17: whenever the locator returns, the owner and the name it returns are
\* both non-empty and hold no path separator, also for a URL whose last
\* path segment is exactly ".git".  The code breaks it: for
\* https://github.com/acme/.git the last segment ends with ".git", four
\* characters are cut off and the name returned is the empty string.
C17_OwnerAndNameNonEmpty ==
    Located =>
        /\ repoRef.owner # <<>> /\ repoRef.repo # <<>>
        /\ NoSeparator(repoRef.owner) /\ NoSeparator(repoRef.repo)

\* the host is GitHub's, compared without regard to case
HostIsGitHub(netloc) == StrLower(netloc) \in {Chars("github.com"), Chars("www.github.com")}
NonEmptySegments(path) == SelectSeq(SplitSlash(path), LAMBDA q : q # <<>>)

\* C18: the locator fails with InvalidURL for every URL whose host is not
\* GitHub's (compared case-insensitively) or whose path has fewer than two
\* non-empty segments, and returns otherwise.  The code breaks it: it
\* accepts every host that contains "github.com" as a substring, such as
\* github.com.evil.org or notgithub.com.
C18_OnlyGitHubHostsAccepted ==
    /\ Located => (HostIsGitHub(url.netloc) /\ Len(NonEmptySegments(url.path)) >= 2)
    /\ LocatorFailed => ~(HostIsGitHub(url.netloc) /\ Len(NonEmptySegments(url.path)) >= 2)

\* ==================================================================
\* Properties of the HTML resolver (checked under SpecHtml)
\* ==================================================================
\* the candidates as the specification lists them: hint (if any), main, master
SpecCands == (IF hint = NoBranch THEN <<>> ELSE <<hint>>) \o <<<<"main">>, <<"master">>>>
NumCands == Len(SpecCands)
\* branch by branch: commit-history page, then tree page of the same branch
BranchByBranch ==
    [i \in 1..(2 * NumCands) |->
        <<"html", IF i % 2 = 1 THEN "commits" ELSE "tree", SpecCands[(i + 1) \div 2]>>]
\* page kind by page kind: every commit-history page, then every tree page
CommitPagesFirst ==
    [i \in 1..(2 * NumCands) |->
        <<"html", IF i <= NumCands THEN "commits" ELSE "tree",
          SpecCands[IF i <= NumCands THEN i ELSE i - NumCands]>>]
PageHits(q) == PageMatch(q[2], pages[q[2]][q[3]])
Hits(order) == {i \in 1..Len(order) : PageHits(order[i])}
FirstHit(order) == CHOOSE i \in Hits(order) : \A j \in Hits(order) : i <= j
\* the call tried the pages in this order and stopped at the first match
TriedInOrder(order) ==
    pc # "guess" =>
        IF Hits(order) = {}
        THEN pc = "raised" /\ requests = order
        ELSE LET q == order[FirstHit(order)] IN
             /\ pc = "guessed"
             /\ requests = SubSeq(order, 1, FirstHit(order))
             /\ branch = q[3] /\ sha = pages[q[2]][q[3]]

\* C14 as stated: the candidates are tried in the order hint, main, master,
\* for each branch its commit-history page and then its tree page, and the
\* first branch matched by either page wins.
C14_Original == TriedInOrder(BranchByBranch)

\* C14 (amended): the candidates are hint (if any), main, master; the
\* commit-history page of every candidate is tried in that order, and only
\* when none of them matches are the tree pages tried, in the same order;
\* the first page that matches gives the branch and the commit id.
C14_CommitPagesBeforeTreePages == TriedInOrder(CommitPagesFirst)

C14_Witness ==
    /\ pc = "guessed" /\ hint = Dev
    /\ PageMatch("tree", pages["tree"][Dev]) /\ pages["commits"][Dev] = ""
    /\ pages["commits"][Main] = "z40" /\ PageMatch("commits", pages["commits"][Master])
    /\ branch = Master /\ Len(requests) = 3

====
